---- MODULE Spec2Model ----
(***************************************************************************)
(* Model of wireless_scanner_gui (src/src/main.rs): the scan-and-parse     *)
(* function list_wifi_networks, the colour bucketing signal_color and the  *)
(* iced Application WirelessScanner (update, driven by the runtime that    *)
(* runs the futures of Command::perform and feeds their messages back).    *)
(*                                                                         *)
(* Text is a sequence of one-character strings, so that splitting,         *)
(* trimming and integer parsing are computed character by character as     *)
(* the Rust standard library does.                                         *)
(***************************************************************************)
EXTENDS Integers, Sequences, FiniteSets, TLC

VARIABLES
    networks,      \* WirelessScanner.networks
    scanning,      \* WirelessScanner.scanning
    pending,       \* futures handed to the runtime by Command::perform, not yet run
    inbox,         \* Message::ScanResult values produced by futures, not yet given to update
    requests,      \* Message::Scan values given to update so far
    invocations,   \* calls of ProcessCommand::output so far
    panics,        \* futures that ended in a panic
    alive,         \* the process has not been aborted
    platform,      \* target_os the binary was built for
    last_msg,      \* the message update handled last
    last_run,      \* command outcome and locals of the future that ran last
    p_platform,    \* list_wifi_networks alone: target_os
    p_output,      \* list_wifi_networks alone: the std::process::Output given to the parser
    p_locals,      \* list_wifi_networks alone: locals of list_wifi_networks at its end
    c_strength,    \* signal_color alone: argument of signal_color
    c_color,       \* signal_color alone: its result
    u_self,        \* update alone: WirelessScanner before the call
    u_message,     \* update alone: the message
    u_out          \* update alone: WirelessScanner and Command after the call

vars == << networks, scanning, pending, inbox, requests, invocations, panics,
           alive, platform, last_msg, last_run, p_platform, p_output, p_locals,
           c_strength, c_color, u_self, u_message, u_out >>

(***************************************************************************)
(* Bounds of the model.                                                    *)
(***************************************************************************)
MaxLineLen == 5     \* longest line of the exhaustively enumerated one-line outputs
MaxLines == 3       \* most lines of an output built from the sample lines
MaxRequests == 3    \* most presses of the Scan button
MaxRecords == 2     \* longest record list given to update directly
ColorMargin == 6    \* how far below 0 and above 100 signal_color is tried

(***************************************************************************)
(* Text helpers: str methods of the Rust standard library.                 *)
(***************************************************************************)
None == [some |-> FALSE]
Some(x) == [some |-> TRUE, val |-> x]

MaxOf(S) == CHOOSE i \in S : \A j \in S : j <= i
MinOf(S) == CHOOSE i \in S : \A j \in S : i <= j

Positions(s, c) == {i \in 1..Len(s) : s[i] = c}

\* char::is_whitespace, on the characters the model uses
IsWhitespace(c) == c \in {" ", "\t", "\n", "\r"}

\* str::trim
Trim(s) ==
    LET keep == {i \in 1..Len(s) : ~IsWhitespace(s[i])}
    IN  IF keep = {} THEN << >> ELSE SubSeq(s, MinOf(keep), MaxOf(keep))

\* str::rsplit_once(":")
RSplitOnce(s) ==
    LET at == Positions(s, ":")
    IN  IF at = {} THEN None
        ELSE Some(<< SubSeq(s, 1, MaxOf(at) - 1), SubSeq(s, MaxOf(at) + 1, Len(s)) >>)

\* str::splitn(2, ":"), collected: one or two parts
SplitN2(s) ==
    LET at == Positions(s, ":")
    IN  IF at = {} THEN << s >>
        ELSE << SubSeq(s, 1, MinOf(at) - 1), SubSeq(s, MinOf(at) + 1, Len(s)) >>

\* str::split(":").nth(1)
SplitNth1(s) ==
    LET at == Positions(s, ":")
    IN  IF at = {} THEN None
        ELSE LET first == MinOf(at)
                 rest == at \ {first}
             IN  Some(SubSeq(s, first + 1, IF rest = {} THEN Len(s) ELSE MinOf(rest) - 1))

\* str::contains(pat)
Contains(s, pat) ==
    \E i \in 1..(Len(s) - Len(pat) + 1) : SubSeq(s, i, i + Len(pat) - 1) = pat

\* str::split_whitespace, collected
RECURSIVE SplitWhitespace(_)
SplitWhitespace(s) ==
    LET keep == {i \in 1..Len(s) : ~IsWhitespace(s[i])}
    IN  IF keep = {} THEN << >>
        ELSE LET from == MinOf(keep)
                 ws == {i \in from..Len(s) : IsWhitespace(s[i])}
                 to == IF ws = {} THEN Len(s) ELSE MinOf(ws) - 1
             IN  << SubSeq(s, from, to) >> \o SplitWhitespace(SubSeq(s, to + 1, Len(s)))

\* str::lines, collected: split at "\n", a final "\r" of a line dropped, no
\* empty line after a closing "\n"
RECURSIVE TextLines(_)
TextLines(s) ==
    IF s = << >> THEN << >>
    ELSE LET nl == Positions(s, "\n")
             to == IF nl = {} THEN Len(s) ELSE MinOf(nl) - 1
             raw == SubSeq(s, 1, to)
             line == IF raw # << >> /\ raw[Len(raw)] = "\r" /\ nl # {}
                     THEN SubSeq(raw, 1, Len(raw) - 1) ELSE raw
         IN  << line >> \o TextLines(SubSeq(s, to + 2, Len(s)))

I32Max == 2147483647
I32Min == (-2147483647) - 1

Digits == {"0", "1", "2", "3", "4", "5", "6", "7", "8", "9"}
DigitVal(c) ==
    CASE c = "0" -> 0 [] c = "1" -> 1 [] c = "2" -> 2 [] c = "3" -> 3 [] c = "4" -> 4
      [] c = "5" -> 5 [] c = "6" -> 6 [] c = "7" -> 7 [] c = "8" -> 8 [] c = "9" -> 9

\* the digit loop of i32::from_str: acc is the value so far, held with the
\* sign of the result so that i32::MIN is reachable; an overflow is an Err
RECURSIVE ParseDigits(_, _, _)
ParseDigits(ds, acc, neg) ==
    IF ds = << >> THEN Some(acc)
    ELSE IF Head(ds) \notin Digits THEN None
    ELSE LET d == DigitVal(Head(ds))
         IN  IF neg
             THEN IF acc < I32Min \div 10 + 1 \/ acc * 10 < I32Min + d THEN None
                  ELSE ParseDigits(Tail(ds), acc * 10 - d, neg)
             ELSE IF acc > I32Max \div 10 \/ acc * 10 > I32Max - d THEN None
                  ELSE ParseDigits(Tail(ds), acc * 10 + d, neg)

\* str::parse::<i32>: an optional sign, then one digit or more
ParseI32(s) ==
    IF s = << >> THEN None
    ELSE IF Head(s) \in {"+", "-"}
         THEN IF Len(s) = 1 THEN None ELSE ParseDigits(Tail(s), 0, Head(s) = "-")
         ELSE ParseDigits(s, 0, FALSE)

(***************************************************************************)
(* list_wifi_networks.  hash_map is the HashMap<String, (String, i32)> of  *)
(* lines 59 and 94 (the linux block uses it under the same name); it is a  *)
(* function from the names held to << address, strength >>.                *)
(***************************************************************************)
EmptyMap == [k \in {} |-> << >>]

\* HashMap::insert: the value of a key already held is replaced
Insert(hash_map, key, value) ==
    [k \in (DOMAIN hash_map) \cup {key} |-> IF k = key THEN value ELSE hash_map[k]]

\* LinuxLine without the test of line 31 for an empty name or address
LinuxLine_NoEmptyTest(hash_map, wifi) ==
    LET split == RSplitOnce(wifi)
    IN  IF ~split.some THEN hash_map
        ELSE LET strength == ParseI32(split.val[2])
                 parts == SplitN2(split.val[1])
             IN  IF ~strength.some \/ Len(parts) < 2 THEN hash_map
                 ELSE Insert(hash_map, parts[1], << parts[2], strength.val >>)

\* body of the linux loop, lines 26-40, for one line
LinuxLine(hash_map, wifi) ==
    LET split == RSplitOnce(wifi)
    IN  IF ~split.some THEN hash_map
        ELSE LET mac_address_and_ssid == split.val[1]
                 strength == ParseI32(split.val[2])
                 parts == SplitN2(mac_address_and_ssid)
             IN  IF ~strength.some THEN hash_map
                 ELSE IF Len(parts) < 2 THEN hash_map
                 ELSE IF Trim(parts[1]) # << >> /\ Trim(parts[2]) # << >>
                      THEN Insert(hash_map, parts[1], << parts[2], strength.val >>)
                      ELSE hash_map

\* the first line of the whole text that contains the marker (lines 64, 68-70)
FindLine(lines, marker) ==
    LET at == {i \in 1..Len(lines) : Contains(lines[i], marker)}
    IN  IF at = {} THEN None ELSE Some(lines[MinOf(at)])

SSID == << "S", "S", "I", "D" >>
BSSID == << "B", "S", "S", "I", "D" >>
Signal == << "S", "i", "g", "n", "a", "l" >>

\* body of the windows loop, lines 61-81, for one line of the text `lines`
WindowsLine(hash_map, line, lines) ==
    IF ~Contains(line, SSID) THEN hash_map
    ELSE LET ssid == SplitNth1(line)
             bssid_line == FindLine(lines, BSSID)
             signal_line == FindLine(lines, Signal)
         IN  IF ~ssid.some \/ ~bssid_line.some THEN hash_map
             ELSE LET bssid == SplitNth1(bssid_line.val)
                  IN  IF ~bssid.some \/ ~signal_line.some THEN hash_map
                      ELSE LET signal_strength == SplitNth1(signal_line.val)
                           IN  IF ~signal_strength.some THEN hash_map
                               ELSE LET strength == ParseI32(Trim(signal_strength.val))
                                    IN  IF ~strength.some THEN hash_map
                                        ELSE Insert(hash_map, Trim(ssid.val),
                                                    << Trim(bssid.val), strength.val >>)

\* body of the macos loop, lines 97-104, for one line
MacosLine(hash_map, line) ==
    LET parts == SplitWhitespace(line)
    IN  IF Len(parts) < 3 THEN hash_map
        ELSE LET strength == ParseI32(parts[3])
             IN  IF ~strength.some THEN hash_map
                 ELSE Insert(hash_map, parts[1], << parts[2], strength.val >>)

Platforms == {"linux", "windows", "macos"}

\* the `for` loops of lines 25, 60 and 96 from line i on
RECURSIVE ParseLoop(_, _, _, _)
ParseLoop(target_os, lines, i, hash_map) ==
    IF i > Len(lines) THEN hash_map
    ELSE ParseLoop(target_os, lines, i + 1,
                   CASE target_os = "linux" -> LinuxLine(hash_map, lines[i])
                     [] target_os = "windows" -> WindowsLine(hash_map, lines[i], lines)
                     [] target_os = "macos" -> MacosLine(hash_map, lines[i]))

\* the entries of a map as a vector of (name, address, strength)
RECURSIVE Entries(_)
Entries(hash_map) ==
    IF DOMAIN hash_map = {} THEN << >>
    ELSE LET k == CHOOSE x \in DOMAIN hash_map : TRUE
         IN  << << k, hash_map[k][1], hash_map[k][2] >> >>
             \o Entries([x \in (DOMAIN hash_map) \ {k} |-> hash_map[x]])

\* list_wifi_networks with the entries parsed pushed to the vector returned
ListLocals_PushesEntries(target_os, output) ==
    IF ~output.spawned
    THEN [panicked |-> TRUE, networks |-> << >>, hash_map |-> [k \in {} |-> << >>]]
    ELSE IF output.success
    THEN LET hash_map == ParseLoop(target_os, TextLines(output.stdout), 1,
                                   [k \in {} |-> << >>])
         IN  [panicked |-> FALSE, networks |-> Entries(hash_map), hash_map |-> hash_map]
    ELSE [panicked |-> ~output.stderr_utf8, networks |-> << >>,
          hash_map |-> [k \in {} |-> << >>]]

(* A std::process::Output as the function sees it, or the failure to spawn: *)
(*   spawned      ProcessCommand::output returned Ok                        *)
(*   success      output.status.success()                                   *)
(*   stdout       String::from_utf8_lossy(&output.stdout)                   *)
(*   stderr_utf8  str::from_utf8(&output.stderr) is Ok                      *)
\* the locals of list_wifi_networks when it ends: `networks` is the vector of
\* line 10, which no path pushes to; panicked is the .expect of lines 21, 55,
\* 90 or the .unwrap of lines 43, 84, 117
ListLocals(target_os, output) ==
    IF ~output.spawned
    THEN [panicked |-> TRUE, networks |-> << >>, hash_map |-> EmptyMap]
    ELSE IF output.success
    THEN [panicked |-> FALSE, networks |-> << >>,
          hash_map |-> ParseLoop(target_os, TextLines(output.stdout), 1, EmptyMap)]
    ELSE [panicked |-> ~output.stderr_utf8, networks |-> << >>, hash_map |-> EmptyMap]

\* fn list_wifi_networks() -> Vec<(String, String, i32)>: None is a panic
list_wifi_networks(target_os, output) ==
    LET locals == ListLocals(target_os, output)
    IN  IF locals.panicked THEN None ELSE Some(locals.networks)

(***************************************************************************)
(* signal_color, lines 123-131: Color::from_rgb8 as << r, g, b >>.         *)
(***************************************************************************)
BLACK == << 0, 0, 0 >>

\* signal_color with the upper ends of the ranges exclusive
signal_color_ExclusiveEnds(strength) ==
    CASE strength \in 0..19 -> << 139, 0, 0 >>
      [] strength \in 20..49 -> << 255, 165, 0 >>
      [] strength \in 50..79 -> << 255, 255, 0 >>
      [] strength \in 80..99 -> << 0, 255, 0 >>
      [] OTHER -> BLACK

signal_color(strength) ==
    CASE strength \in 0..20 -> << 139, 0, 0 >>
      [] strength \in 21..50 -> << 255, 165, 0 >>
      [] strength \in 51..80 -> << 255, 255, 0 >>
      [] strength \in 81..100 -> << 0, 255, 0 >>
      [] OTHER -> BLACK

(***************************************************************************)
(* WirelessScanner, lines 137-183.                                         *)
(***************************************************************************)
Scan == [tag |-> "Scan"]
ScanResult(results) == [tag |-> "ScanResult", results |-> results]

\* impl Default for WirelessScanner
Default == [networks |-> << >>, scanning |-> FALSE]

\* update without the test of self.scanning (lines 171-173)
update_NoGate(self, message) ==
    IF message.tag = "Scan"
    THEN [self |-> [networks |-> << >>, scanning |-> TRUE], command |-> "perform"]
    ELSE [self |-> [self EXCEPT !.networks = message.results], command |-> "none"]

\* update without the clearing of the list (line 175)
update_KeepsList(self, message) ==
    IF message.tag = "Scan"
    THEN IF self.scanning
         THEN [self |-> self, command |-> "none"]
         ELSE [self |-> [self EXCEPT !.scanning = TRUE], command |-> "perform"]
    ELSE [self |-> [self EXCEPT !.networks = message.results], command |-> "none"]

\* update extending the list with the results instead of replacing it (line 179)
update_Extends(self, message) ==
    IF message.tag = "Scan"
    THEN IF self.scanning
         THEN [self |-> self, command |-> "none"]
         ELSE [self |-> [networks |-> << >>, scanning |-> TRUE], command |-> "perform"]
    ELSE [self |-> [self EXCEPT !.networks = self.networks \o message.results],
          command |-> "none"]

\* fn update(&mut self, message) -> Command<Message>: self afterwards, and
\* whether the Command returned is Command::perform(list_wifi_networks, ..)
update(self, message) ==
    IF message.tag = "Scan"
    THEN IF self.scanning
         THEN [self |-> self, command |-> "none"]
         ELSE [self |-> [networks |-> << >>, scanning |-> TRUE], command |-> "perform"]
    ELSE [self |-> [self EXCEPT !.networks = message.results], command |-> "none"]

(***************************************************************************)
(* Inputs: what the commands may print.                                    *)
(***************************************************************************)
Chars == {"a", ":", "7", " "}

StringsUpTo(n) == UNION {[1..k -> Chars] : k \in 0..n}

RECURSIVE SeqsUpTo(_, _)
SeqsUpTo(S, n) ==
    IF n = 0 THEN {<< >>}
    ELSE LET shorter == SeqsUpTo(S, n - 1)
         IN  shorter \cup {Append(q, x) : q \in {r \in shorter : Len(r) = n - 1}, x \in S}

LinuxLines ==
    { << "H", "o", "m", "e", "N", "e", "t", ":", "a", "a", ":", "b", "b", ":", "c", "c", ":", "d", "d", ":", "e", "e", ":", "f", "f", ":", "7", "2" >>,
      << "H", "o", "m", "e", "N", "e", "t", ":", "1", "1", ":", "2", "2", ":", "3", "3", ":", "4", "4", ":", "5", "5", ":", "6", "6", ":", "1", "5" >>,
      << "C", "a", "f", "e", ":", "0", "a", ":", "+", "8", "5" >>,
      << ":", ":", "5", "5" >>,
      << "C", "a", "f", "e", ":", "0", "a", ":", "x", "9" >>,
      << " ", ":", " ", "0", "a", ":", "4", "0" >> }

WindowsLines ==
    { << "S", "S", "I", "D", " ", "1", " ", ":", " ", "H", "o", "m", "e" >>,
      << "B", "S", "S", "I", "D", " ", "1", " ", ":", " ", "a", "a", ":", "b", "b" >>,
      << "S", "i", "g", "n", "a", "l", " ", ":", " ", "7", "2", "%" >>,
      << "S", "i", "g", "n", "a", "l", " ", ":", " ", "7", "2" >>,
      << "S", "S", "I", "D", " ", "2", " ", ":", " ", "C", "a", "f", "e" >>,
      << "C", "h", "a", "n", "n", "e", "l", " ", ":", " ", "6" >> }

MacosLines ==
    { << "C", "a", "f", "e", "W", "i", "f", "i", " ", "1", "1", ":", "2", "2", ":", "3", "3", ":", "4", "4", ":", "5", "5", ":", "6", "6", " ", "1", "5" >>,
      << "C", "a", "f", "e", "W", "i", "f", "i", " ", "a", "a", ":", "b", "b", " ", "8", "0" >>,
      << "H", "o", "m", "e", " ", "a", "a", ":", "b", "b", " ", "-", "5", "0" >>,
      << "S", "S", "I", "D", " ", "B", "S", "S", "I", "D", " ", "R", "S", "S", "I" >>,
      << "H", "o", "m", "e", " ", "a", "a", ":", "b", "b" >>,
      << " ", "H", "o", "m", "e", "\t", "0", "a", " ", "7", " ", "x" >> }

SampleLines(target_os) ==
    CASE target_os = "linux" -> LinuxLines
      [] target_os = "windows" -> WindowsLines
      [] target_os = "macos" -> MacosLines

\* the text of the lines, each closed by a newline
RECURSIVE JoinLines(_)
JoinLines(lines) ==
    IF lines = << >> THEN << >>
    ELSE Head(lines) \o << "\n" >> \o JoinLines(Tail(lines))

Texts(target_os) ==
    StringsUpTo(MaxLineLen) \cup {JoinLines(ls) : ls \in SeqsUpTo(SampleLines(target_os), MaxLines)}

SpawnError == [spawned |-> FALSE, success |-> FALSE, stdout |-> << >>, stderr_utf8 |-> TRUE]

Outputs(target_os) ==
    {SpawnError}
    \cup {[spawned |-> TRUE, success |-> FALSE, stdout |-> << >>, stderr_utf8 |-> u] :
            u \in BOOLEAN}
    \cup {[spawned |-> TRUE, success |-> TRUE, stdout |-> t, stderr_utf8 |-> TRUE] :
            t \in Texts(target_os)}

NoLocals == [panicked |-> FALSE, networks |-> << >>, hash_map |-> EmptyMap]

Records ==
    { << << "a" >>, << "0", "a" >>, 72 >>,
      << << "a" >>, << "0", "b" >>, 15 >>,
      << << "b" >>, << "0", "c" >>, -5 >> }

RecordLists == SeqsUpTo(Records, MaxRecords)

(***************************************************************************)
(* The program: the iced runtime around WirelessScanner.                   *)
(***************************************************************************)
self == [networks |-> networks, scanning |-> scanning]

progVars == << networks, scanning, pending, inbox, requests, invocations, panics,
               alive, platform, last_msg, last_run >>
parseVars == << p_platform, p_output, p_locals >>
colorVars == << c_strength, c_color >>
updateVars == << u_self, u_message, u_out >>

NoRun == [ran |-> FALSE, output |-> SpawnError, locals |-> NoLocals]

\* fn new: Self::default() and Command::none()
ProgInit ==
    /\ networks = Default.networks
    /\ scanning = Default.scanning
    /\ pending = 0
    /\ inbox = << >>
    /\ requests = 0
    /\ invocations = 0
    /\ panics = 0
    /\ alive = TRUE
    /\ platform \in Platforms
    /\ last_msg = "none"
    /\ last_run = NoRun

ParseIdle ==
    /\ p_platform = "linux"
    /\ p_output = SpawnError
    /\ p_locals = None

ColorIdle ==
    /\ c_strength = 0
    /\ c_color = None

UpdateIdle ==
    /\ u_self = Default
    /\ u_message = Scan
    /\ u_out = None

ProgIdle ==
    /\ ProgInit
    /\ platform = "linux"

\* the Scan button is pressed: update(Message::Scan), lines 170-177
PressScan ==
    /\ alive
    /\ requests < MaxRequests
    /\ LET r == update(self, Scan)
       IN  /\ networks' = r.self.networks
           /\ scanning' = r.self.scanning
           /\ pending' = IF r.command = "perform" THEN pending + 1 ELSE pending
    /\ requests' = requests + 1
    /\ last_msg' = "Scan"
    /\ UNCHANGED << inbox, invocations, panics, alive, platform, last_run >>
    /\ UNCHANGED << parseVars, colorVars, updateVars >>

\* the runtime runs the future of Command::perform (line 176): the command
\* is run once, and the value returned becomes a Message::ScanResult; a panic
\* ends the future without a message, and ends the process where the build
\* aborts on panic
RunScanTask ==
    /\ alive
    /\ pending > 0
    /\ \E output \in Outputs(platform) :
         LET r == list_wifi_networks(platform, output)
         IN  /\ last_run' = [ran |-> TRUE, output |-> output,
                             locals |-> ListLocals(platform, output)]
             /\ IF r.some
                THEN /\ inbox' = Append(inbox, ScanResult(r.val))
                     /\ UNCHANGED << panics, alive >>
                ELSE /\ panics' = panics + 1
                     /\ alive' \in BOOLEAN
                     /\ UNCHANGED inbox
    /\ pending' = pending - 1
    /\ invocations' = invocations + 1
    /\ UNCHANGED << networks, scanning, requests, platform, last_msg >>
    /\ UNCHANGED << parseVars, colorVars, updateVars >>

\* the runtime hands the message to update: update(Message::ScanResult(..)),
\* lines 178-181
DeliverScanResult ==
    /\ alive
    /\ inbox # << >>
    /\ LET r == update(self, Head(inbox))
       IN  /\ networks' = r.self.networks
           /\ scanning' = r.self.scanning
           /\ pending' = IF r.command = "perform" THEN pending + 1 ELSE pending
    /\ inbox' = Tail(inbox)
    /\ last_msg' = "ScanResult"
    /\ UNCHANGED << requests, invocations, panics, alive, platform, last_run >>
    /\ UNCHANGED << parseVars, colorVars, updateVars >>

Init == ProgInit /\ ParseIdle /\ ColorIdle /\ UpdateIdle

Next == PressScan \/ RunScanTask \/ DeliverScanResult

Spec == Init /\ [][Next]_vars

(***************************************************************************)
(* list_wifi_networks applied to each output a command may give.           *)
(***************************************************************************)
ParseInit ==
    /\ p_platform \in Platforms
    /\ p_output \in Outputs(p_platform)
    /\ p_locals = None
    /\ ProgIdle /\ ColorIdle /\ UpdateIdle

CallListWifiNetworks ==
    /\ ~p_locals.some
    /\ p_locals' = Some(ListLocals(p_platform, p_output))
    /\ UNCHANGED << p_platform, p_output, progVars, colorVars, updateVars >>

ParseNext == CallListWifiNetworks

ParseSpec == ParseInit /\ [][ParseNext]_vars

(***************************************************************************)
(* signal_color applied to each strength.                                  *)
(***************************************************************************)
Strengths == ((-ColorMargin)..(100 + ColorMargin)) \cup {I32Min, I32Max}

ColorInit ==
    /\ c_strength \in Strengths
    /\ c_color = None
    /\ ProgIdle /\ ParseIdle /\ UpdateIdle

CallSignalColor ==
    /\ ~c_color.some
    /\ c_color' = Some(signal_color(c_strength))
    /\ UNCHANGED << c_strength, progVars, parseVars, updateVars >>

ColorNext == CallSignalColor

ColorSpec == ColorInit /\ [][ColorNext]_vars

(***************************************************************************)
(* update applied to each WirelessScanner value and each message.          *)
(***************************************************************************)
Messages == {Scan} \cup {ScanResult(rs) : rs \in RecordLists}

UpdateInit ==
    /\ u_self \in [networks : RecordLists, scanning : BOOLEAN]
    /\ u_message \in Messages
    /\ u_out = None
    /\ ProgIdle /\ ParseIdle /\ ColorIdle

CallUpdate ==
    /\ ~u_out.some
    /\ u_out' = Some(update(u_self, u_message))
    /\ UNCHANGED << u_self, u_message, progVars, parseVars, colorVars >>

UpdateNext == CallUpdate

UpdateSpec == UpdateInit /\ [][UpdateNext]_vars

(***************************************************************************)
(* Properties.                                                             *)
(***************************************************************************)
\* scan tasks started and not yet handled by update
Outstanding == pending + Len(inbox)

\* the colon-delimited line format, read as the specification words it:
\* signal is the text after the last colon, name the text before the first
\* colon, address everything between the two
FieldSignal(line) == SubSeq(line, MaxOf(Positions(line, ":")) + 1, Len(line))
FieldName(line) == SubSeq(line, 1, MinOf(Positions(line, ":")) - 1)
FieldAddress(line) ==
    SubSeq(line, MinOf(Positions(line, ":")) + 1, MaxOf(Positions(line, ":")) - 1)

IsBlank(s) == \A i \in 1..Len(s) : IsWhitespace(s[i])

WellFormed(line) ==
    /\ Cardinality(Positions(line, ":")) >= 2
    /\ ParseI32(FieldSignal(line)).some
    /\ ~IsBlank(FieldName(line))
    /\ ~IsBlank(FieldAddress(line))

RecordOf(line) ==
    << FieldName(line), FieldAddress(line), ParseI32(FieldSignal(line)).val >>

\* list_wifi_networks has returned from the colon-delimited path
LinuxParsed == p_locals.some /\ p_platform = "linux" /\ p_output.spawned /\ p_output.success

p_lines == TextLines(p_output.stdout)
p_wellformed == {i \in 1..Len(p_lines) : WellFormed(p_lines[i])}

\* C1: at most one scan task is outstanding in every reachable state, and a
\* Scan request handled while scanning starts no task and runs no command.
C1_AtMostOneScanOutstanding ==
    /\ [](Outstanding <= 1)
    /\ [][(requests' = requests + 1 /\ scanning)
            => (pending' = pending /\ invocations' = invocations /\ scanning')]_vars

C1_Witness == scanning /\ requests >= 2 /\ Outstanding = 1 /\ last_msg = "Scan"

\* C2: once update has handled ScanResult the presenter is Idle: the
\* scanning flag is false.
C2_ScanCompletedReturnsToIdle == (last_msg = "ScanResult") => ~scanning

\* C3: a scan whose command could not be spawned or exited with non-zero
\* status still ends in a ScanResult with an empty list, with no panic and
\* the process alive.
C3_FailedScanStillCompletes ==
    (last_run.ran /\ ~(last_run.output.spawned /\ last_run.output.success))
        => /\ alive
           /\ panics = 0
           /\ (inbox = << ScanResult(<< >>) >> \/ (inbox = << >> /\ last_msg = "ScanResult"))

\* C4: update(Scan) on a presenter whose scanning flag is false sets the
\* flag, empties the record list and returns one Command::perform, whatever
\* the list held.
C4_ScanInIdleStartsOneScan ==
    (u_out.some /\ u_message.tag = "Scan" /\ ~u_self.scanning)
        => /\ u_out.val.self.scanning
           /\ u_out.val.self.networks = << >>
           /\ u_out.val.command = "perform"

C4_Witness ==
    /\ u_out.some /\ u_message.tag = "Scan" /\ ~u_self.scanning
    /\ Len(u_self.networks) = MaxRecords
    /\ u_out.val.command = "perform"

\* C5: after update(ScanResult(records)) the record list is exactly
\* records, in the same order, whatever it held before.
C5_ResultsReplaceList ==
    (u_out.some /\ u_message.tag = "ScanResult")
        => u_out.val.self.networks = u_message.results

C5_Witness ==
    /\ u_out.some /\ u_message.tag = "ScanResult"
    /\ Len(u_self.networks) = MaxRecords
    /\ Len(u_message.results) >= 1
    /\ u_message.results[1] # u_self.networks[1]
    /\ u_out.val.self.networks = u_message.results

\* C6: on the colon-delimited path every well-formed line of the output
\* yields one record with its name, address and signal in the list returned.
C6_WellFormedLineYieldsRecord ==
    LinuxParsed =>
        /\ \A i \in p_wellformed :
             \E k \in 1..Len(p_locals.val.networks) :
                p_locals.val.networks[k] = RecordOf(p_lines[i])
        /\ Len(p_locals.val.networks) = Cardinality(p_wellformed)

\* C7: on the colon-delimited path only the well-formed lines contribute:
\* the entries parsed are those of the well-formed lines (for each name, the
\* last such line), whatever malformed lines stand before, between or after
\* them, and no record in the list returned comes from a malformed line.
C7_MalformedLinesContributeNothing ==
    LinuxParsed =>
        /\ p_locals.val.hash_map =
             [n \in {FieldName(p_lines[i]) : i \in p_wellformed} |->
                 LET last == MaxOf({i \in p_wellformed : FieldName(p_lines[i]) = n})
                 IN  << FieldAddress(p_lines[last]),
                        ParseI32(FieldSignal(p_lines[last])).val >>]
        /\ \A k \in 1..Len(p_locals.val.networks) :
             \E i \in p_wellformed : p_locals.val.networks[k] = RecordOf(p_lines[i])

C7_Witness ==
    /\ LinuxParsed
    /\ Len(p_lines) = 3
    /\ p_wellformed = {1, 3}
    /\ p_lines[2] = << ":", ":", "5", "5" >>
    /\ FieldName(p_lines[1]) # FieldName(p_lines[3])
    /\ Cardinality(DOMAIN p_locals.val.hash_map) = 2

\* C8: when the output holds well-formed entries with the same name and
\* different addresses, the list returned holds one record per well-formed
\* entry.
C8_NotDeduplicatedByName ==
    (/\ LinuxParsed
     /\ \E i, j \in p_wellformed :
           /\ FieldName(p_lines[i]) = FieldName(p_lines[j])
           /\ FieldAddress(p_lines[i]) # FieldAddress(p_lines[j]))
        => /\ Len(p_locals.val.networks) = Cardinality(p_wellformed)
           /\ \A i \in p_wellformed :
                \E k \in 1..Len(p_locals.val.networks) :
                   p_locals.val.networks[k] = RecordOf(p_lines[i])

\* C9: signal_color maps 0..20 to dark red, 21..50 to orange, 51..80 to
\* yellow, 81..100 to green and every other i32 to black.
C9_SignalColorBuckets ==
    c_color.some =>
        c_color.val =
            IF c_strength < 0 \/ c_strength > 100 THEN << 0, 0, 0 >>
            ELSE IF c_strength <= 20 THEN << 139, 0, 0 >>
            ELSE IF c_strength <= 50 THEN << 255, 165, 0 >>
            ELSE IF c_strength <= 80 THEN << 255, 255, 0 >>
            ELSE << 0, 255, 0 >>

C9_Witness == c_color.some /\ c_strength = 80 /\ c_color.val = << 255, 255, 0 >>

\* C10: the presenter's record list is empty in every reachable state, and
\* so is the list of every ScanResult: list_wifi_networks returns an empty
\* vector whatever the command printed.
C10_RecordListAlwaysEmpty ==
    /\ networks = << >>
    /\ \A i \in 1..Len(inbox) : inbox[i].results = << >>

C10_Witness ==
    /\ last_run.ran
    /\ DOMAIN last_run.locals.hash_map # {}
    /\ last_msg = "ScanResult"
    /\ inbox = << >>
    /\ networks = << >>

====
